---- MODULE Spec2Model ----
(***************************************************************************)
(* Model of src/lib/git/GitCommit.js: the cancellable Fetcher base class,  *)
(* the RecursiveCommitFetcher (history walker) and the DiffFetcher (tree   *)
(* diff engine).                                                           *)
(*                                                                         *)
(* A behaviour is the life of ONE fetcher instance: Init chooses which     *)
(* engine was constructed and the repository contents it runs against.     *)
(* JavaScript runs every continuation to completion, so one action is one  *)
(* continuation (the code between two awaits).  Store calls in flight are  *)
(* settled one at a time by the store; the continuation of a Promise.all   *)
(* runs once all of its calls have settled.  cancel() is caller code: it   *)
(* can run between any two continuations, and also from inside the         *)
(* onUpdate callback the engine invokes synchronously.                     *)
(***************************************************************************)
EXTENDS Integers, Sequences, FiniteSets, TLC

(* ------------------------------ bounds --------------------------------- *)
\* commits of the repository are the addresses 1..NumCommits
NumCommits == 3
\* committer timestamps range over 1..MaxTime
MaxTime == 2
VARIABLES
    engine,        \* "walker" | "diff": the class that was constructed
    parentsOf,     \* repo: commit address -> ordered list of parent addresses
    momentOf,      \* repo: commit address -> committer.moment.valueOf()
    filesOf,       \* repo: tree address -> ordered list of tree entries
    countRequired, \* RecursiveCommitFetcher.countRequired
    baseTree,      \* DiffFetcher.baseTree
    compTree,      \* DiffFetcher.compTree ("": falsy, no comparison tree)
    started,       \* start() has been called
    running,       \* Fetcher.running
    handle,        \* promise returned by start(): "none"|"pending"|"resolved"|"rejected"
    count,         \* RecursiveCommitFetcher.count
    fetched,       \* RecursiveCommitFetcher.fetched (set of addresses marked true)
    queue,         \* RecursiveCommitFetcher.queue
    commits,       \* RecursiveCommitFetcher.commits
    pc,            \* walker: where the run()/processCommit chain is suspended
    inflight,      \* walker: addresses handed to repo.getObject by the pending await
    settled,       \* walker: indices of inflight whose promise has fulfilled
    arrival,       \* walker: the settled indices in the order they fulfilled
    tasks,         \* diff: suspended fetchTrees / per-change continuations
    stateChanges,  \* DiffFetcher.stateChanges
    returned,      \* value returned by a getChanges call made on its own
    cancelled,     \* history: the caller has called cancel()
    nUpdate,       \* history: number of onUpdate invocations
    lastUpdate,    \* history: argument of the latest onUpdate invocation
    nComplete,     \* history: number of onComplete invocations
    asked,         \* history: commit address -> number of getObject calls issued
    late           \* history: what happened after cancel() or after a rejection

vars == << engine, parentsOf, momentOf, filesOf, countRequired, baseTree,
           compTree, started, running, handle, count, fetched, queue, commits,
           pc, inflight, settled, arrival, tasks, stateChanges, returned,
           cancelled, nUpdate, lastUpdate, nComplete, asked, late >>

repoVars == << engine, parentsOf, momentOf, filesOf, countRequired, baseTree,
               compTree >>
walkerVars == << count, fetched, queue, commits, pc, inflight, settled,
                 arrival, nComplete, asked >>
diffVars == << tasks, stateChanges >>

(* ------------------------- sequence helpers ---------------------------- *)
Range(s) == { s[i] : i \in 1..Len(s) }

Min(a, b) == IF a < b THEN a ELSE b

\* Array.prototype.slice(0, n) for n >= 0
Slice(s, n) == SubSeq(s, 1, Min(n, Len(s)))

\* Array.prototype.filter
RECURSIVE Filter(_, _)
Filter(s, keep) ==
    IF s = << >> THEN << >>
    ELSE IF Head(s) \in keep THEN << Head(s) >> \o Filter(Tail(s), keep)
         ELSE Filter(Tail(s), keep)

\* Array.prototype.pop in the place of shift: the last element
PopLast(s) == s[Len(s)]

\* Array.prototype.shift: the element removed and the array left
ShiftHead(s) == Head(s)
ShiftRest(s) == Tail(s)

(* ------------------------------ commits -------------------------------- *)
Commits == 1..NumCommits

\* the address handed to fetchCommitAndParents
cid == 1

\* the starting commits of the parent edges leaving c
ParentSet(c) == Range(parentsOf[c])

RECURSIVE ReachFrom(_, _)
ReachFrom(S, n) ==
    IF n = 0 THEN S
    ELSE ReachFrom(S \cup UNION { ParentSet(c) : c \in S }, n - 1)

\* every commit reachable from the starting address
Reachable == ReachFrom({cid}, NumCommits)

\* comparator of the queue sort: b.committer.moment - a.committer.moment;
\* a negative result puts a before b
NewerFirst(a, b) == momentOf[b] - momentOf[a]

\* Array.prototype.sort with that comparator (stable: equal timestamps keep
\* their order), as an insertion sort
RECURSIVE InsertByTime(_, _)
InsertByTime(s, x) ==
    IF s = << >> THEN << x >>
    ELSE IF NewerFirst(Head(s), x) <= 0 THEN << Head(s) >> \o InsertByTime(Tail(s), x)
         ELSE << x >> \o s

RECURSIVE SortByTimeFrom(_, _)
SortByTimeFrom(acc, s) ==
    IF s = << >> THEN acc
    ELSE SortByTimeFrom(InsertByTime(acc, Head(s)), Tail(s))

\* the queue left in arrival order
SortQueueSkipped(s) == s

SortQueue(s) == SortByTimeFrom(<< >>, s)

\* the slice taken one commit short
UpdateArgOneShort(cs, k) == IF k = -1 THEN cs ELSE Slice(cs, k - 1)

\* line 48: the argument of onUpdate
UpdateArg(cs, k) == IF k = -1 THEN cs ELSE Slice(cs, k)

\* stopping one commit short of the target
EnoughOneShort(cnt, k) == k # -1 /\ cnt >= k - 1

\* line 51: enough commits have been collected
Enough(cnt, k) == k # -1 /\ cnt >= k

\* following the first parent only
ParentCidsFirstOnly(c, f) == Filter(Slice(parentsOf[c], 1), Commits \ f)

\* line 54: the parent addresses not yet marked in this.fetched
ParentCids(c, f) == Filter(parentsOf[c], Commits \ f)

\* processCommit without its guard
MayProcessUnguarded(r) == TRUE

\* line 42: processCommit goes on only while the fetcher is running
MayProcess(r) == r

\* the parents delivered in the order their promises fulfilled
ResolvedInArrivalOrder(asks, arr) == [ i \in 1..Len(asks) |-> asks[arr[i]] ]

\* line 56: Promise.all fulfils with the objects in the order of the calls,
\* whatever the order arr in which the calls fulfilled
Resolved(asks, arr) == asks

\* the getObject calls issued for the addresses in s
Ask(a, s) ==
    [ c \in Commits |-> a[c] + Cardinality({ i \in 1..Len(s) : s[i] = c }) ]

(* ------------------------------- trees --------------------------------- *)
\* Names are JavaScript strings, kept as their sequences of UTF-16 code
\* units: <<66>> is "B", <<97>> is "a", <<97, 98>> is "ab".
Names == { <<66>>, <<97>> }

\* content addresses of file blobs and of directory trees
FileCids == { "f1", "f2" }
DirCids == { "d1", "d2" }
SubDirCids == { "e1", "e2" }

\* the tree addresses fetchDiff builds: `${cid}/tree`, `${cid}/parents/0/tree`
BaseAddr == "base/tree"
CompAddr == "comp/tree"

\* an absent side of a change (undefined)
Undef == [ name |-> << >>, cid |-> "", dir |-> FALSE ]

\* a tree entry; isDir() is its dir field
Entry(n, c) ==
    [ name |-> n, cid |-> c, dir |-> c \in DirCids \cup SubDirCids ]

\* f.fetchContents(): the bytes behind a content address
Contents(e) == IF e = Undef THEN "" ELSE e.cid

\* a < b on JavaScript strings: code unit by code unit, a proper prefix first
RECURSIVE StrLess(_, _)
StrLess(a, b) ==
    IF b = << >> THEN FALSE
    ELSE IF a = << >> THEN TRUE
    ELSE IF Head(a) < Head(b) THEN TRUE
    ELSE IF Head(a) > Head(b) THEN FALSE
    ELSE StrLess(Tail(a), Tail(b))

\* comparator of the stateChanges sort (lines 115-119)
ByNameCmp(a, b) ==
    IF StrLess(a.name, b.name) THEN -1
    ELSE IF StrLess(b.name, a.name) THEN 1
    ELSE 0

\* Array.prototype.sort with that comparator (stable), as an insertion sort
RECURSIVE InsertByName(_, _)
InsertByName(s, x) ==
    IF s = << >> THEN << x >>
    ELSE IF ByNameCmp(Head(s), x) <= 0 THEN << Head(s) >> \o InsertByName(Tail(s), x)
         ELSE << x >> \o s

RECURSIVE SortByNameFrom(_, _)
SortByNameFrom(acc, s) ==
    IF s = << >> THEN acc
    ELSE SortByNameFrom(InsertByName(acc, Head(s)), Tail(s))

\* the records left in the order they were stored
SortChangesSkipped(s) == s

SortChanges(s) == SortByNameFrom(<< >>, s)

\* byName(a)[n]: the last entry of a named n, undefined when there is none
RECURSIVE ByName(_, _)
ByName(a, n) ==
    IF a = << >> THEN Undef
    ELSE IF a[Len(a)].name = n THEN a[Len(a)]
         ELSE ByName(SubSeq(a, 1, Len(a) - 1), n)

\* Object.keys(byName(a)): the names of a in order of first occurrence
RECURSIVE KeysFrom(_, _)
KeysFrom(acc, a) ==
    IF a = << >> THEN acc
    ELSE IF Head(a).name \in Range(acc) THEN KeysFrom(acc, Tail(a))
         ELSE KeysFrom(Append(acc, Head(a).name), Tail(a))

Keys(a) == KeysFrom(<< >>, a)

\* the filter of getChanges left out
ChangedAlways(c) == TRUE

\* only entries present on both sides count as changed
ChangedOnlyModified(c) ==
    /\ c.change[1] # Undef
    /\ c.change[2] # Undef
    /\ c.change[1].cid # c.change[2].cid

\* lines 153-155: a change has occurred
Changed(c) ==
    \/ c.change[1] = Undef
    \/ c.change[2] = Undef
    \/ c.change[1].cid # c.change[2].cid

RECURSIVE FilterChanged(_)
FilterChanged(s) ==
    IF s = << >> THEN << >>
    ELSE IF Changed(Head(s)) THEN << Head(s) >> \o FilterChanged(Tail(s))
         ELSE FilterChanged(Tail(s))

\* every name of the comparison tree added as a change of its own
GetChangesCompAppended(base, comp) ==
    LET hk == Keys(base)
        pk == Keys(comp)
        heads == [ i \in 1..Len(hk) |->
                     [ name |-> hk[i],
                       change |-> << ByName(base, hk[i]), ByName(comp, hk[i]) >> ] ]
        rest == [ i \in 1..Len(pk) |->
                     [ name |-> pk[i],
                       change |-> << Undef, ByName(comp, pk[i]) >> ] ]
    IN FilterChanged(heads \o rest)

\* getChanges(base, comp) on the files of the two trees (comp without files
\* when no comparison tree was resolved)
GetChanges(base, comp) ==
    LET hk == Keys(base)
        pk == Filter(Keys(comp), Range(Keys(comp)) \ Range(hk))
        heads == [ i \in 1..Len(hk) |->
                     [ name |-> hk[i],
                       change |-> << ByName(base, hk[i]), ByName(comp, hk[i]) >> ] ]
        rest == [ i \in 1..Len(pk) |->
                     [ name |-> pk[i],
                       change |-> << Undef, ByName(comp, pk[i]) >> ] ]
    IN FilterChanged(heads \o rest)

\* line 100: both sides present and both directories
BothDirs(c) ==
    /\ c.change[1] # Undef /\ c.change[1].dir
    /\ c.change[2] # Undef /\ c.change[2].dir

\* the path of the enclosing directory passed on as it is
DirPathNotExtended(path, name) == path

\* line 101: the path of the directory under comparison; << >> is undefined
DirPath(path, name) == Append(path, name)

\* lines 88 and 97: fetchTrees and each change go on only while running
MayFetch(r) == r

\* onUpdate without its guard
MayEmitUnguarded(r) == TRUE

\* line 121: onUpdate is invoked only while running
MayEmit(r) == r

\* the suspended fetchTrees(t1, t2, path) awaiting its getObject calls
TreesTask(t1, t2, path) ==
    [ kind |-> "trees", path |-> path, name |-> << >>, t1 |-> t1, t2 |-> t2,
      c1 |-> Undef, c2 |-> Undef,
      wait |-> IF t2 = "" THEN {1} ELSE {1, 2} ]

\* the suspended change continuation awaiting its fetchContents calls
FilesTask(c, path) ==
    [ kind |-> "files", path |-> path, name |-> c.name, t1 |-> "", t2 |-> "",
      c1 |-> c.change[1], c2 |-> c.change[2],
      wait |-> { i \in {1, 2} : c.change[i] # Undef } ]

\* lines 96-106 up to the await: what one change of fetchTrees(.., path) starts
ChangeTask(c, path) ==
    IF BothDirs(c)
    THEN TreesTask(c.change[1].cid, c.change[2].cid, DirPath(path, c.name))
    ELSE FilesTask(c, path)

\* the record pushed on stateChanges (lines 111-115)
DiffRecord(t) ==
    [ path |-> t.path, name |-> t.name,
      change |-> << Contents(t.c1), Contents(t.c2) >> ]

(* ------------------------------- Init ---------------------------------- *)
\* the parent lists commit c can carry: none (a root commit), one parent, or
\* two (a merge; nothing keeps the two addresses apart).  Parents have later
\* addresses than their children, which numbers the commits of any DAG.
ParentLists(c) ==
    LET later == (c + 1)..NumCommits
    IN { << >> } \cup { << p >> : p \in later }
                \cup { << p, q >> : p \in later, q \in later }

AllParentLists == UNION { ParentLists(c) : c \in Commits }

\* nothing has happened after a cancel() or a rejection yet
\*   seen:      store promises settled so far
\*   early:     cancel() was called before any store promise settled
\*   updates, completes, calls: onUpdate / onComplete invocations and store
\*              calls issued after the caller's cancel()
\*   settles:   store promises fulfilled after the caller's cancel()
\*   failed:    a store promise has rejected
\*   afterFail: onUpdate invocations after a rejection
NoLate == [ seen |-> 0, early |-> FALSE, updates |-> 0, completes |-> 0,
            calls |-> 0, settles |-> 0, failed |-> FALSE, afterFail |-> 0 ]

\* the trees a top-level address can resolve to: entries in name order, no
\* name twice
RootTrees ==
    { << >> }
    \cup { << Entry(n, c) >> : n \in Names, c \in FileCids \cup DirCids }
    \cup { << Entry(<<66>>, c), Entry(<<97>>, d) >> :
             c \in FileCids \cup DirCids, d \in FileCids \cup DirCids }

\* the directories of the repository, the same in every run
SubTree(d) ==
    IF d = "d1"
    THEN << Entry(<<66>>, "e1"), Entry(<<97>>, "f1"), Entry(<<97, 98>>, "f1") >>
    ELSE IF d = "d2"
    THEN << Entry(<<66>>, "e2"), Entry(<<97>>, "f2"), Entry(<<97, 98>>, "f1") >>
    ELSE IF d = "e1" THEN << Entry(<<97>>, "f1") >>
    ELSE << Entry(<<97>>, "f2") >>

TreeAddrs == { BaseAddr, CompAddr } \cup DirCids \cup SubDirCids

NoTrees == [ a \in TreeAddrs |-> << >> ]

InitDiff ==
    /\ engine = "diff"
    /\ \E b \in RootTrees, c \in RootTrees :
          filesOf = [ a \in TreeAddrs |->
                        IF a = BaseAddr THEN b
                        ELSE IF a = CompAddr THEN c
                        ELSE SubTree(a) ]
    /\ baseTree = BaseAddr
    /\ compTree \in { CompAddr, "" }
    \* without a comparison tree the contents of its address are never seen
    /\ compTree = "" => filesOf[CompAddr] = << >>
    /\ parentsOf = [ c \in Commits |-> << >> ]
    /\ momentOf = [ c \in Commits |-> 1 ]
    /\ countRequired = -1

InitWalker ==
    /\ engine = "walker"
    /\ parentsOf \in { f \in [ Commits -> AllParentLists ] :
                          \A c \in Commits : f[c] \in ParentLists(c) }
    /\ momentOf \in [ Commits -> 1..MaxTime ]
    \* commits the starting address does not reach are never seen: one
    \* representative of each such repository is enough
    /\ \A c \in Commits \ Reachable : parentsOf[c] = << >> /\ momentOf[c] = 1
    /\ countRequired \in {-1} \cup (1..NumCommits)
    /\ filesOf = NoTrees
    /\ baseTree = ""
    /\ compTree = ""

InitEngine ==
    /\ started = FALSE
    /\ running = FALSE
    /\ handle = "none"
    /\ count = 0
    /\ fetched = {}
    /\ queue = << >>
    /\ commits = << >>
    /\ pc = "new"
    /\ inflight = << >>
    /\ settled = {}
    /\ tasks = {}
    /\ stateChanges = << >>
    /\ cancelled = FALSE
    /\ nUpdate = 0
    /\ lastUpdate = << >>
    /\ nComplete = 0
    /\ asked = [ c \in Commits |-> 0 ]
    /\ late = NoLate
    /\ arrival = << >>
    /\ returned = << >>

Init == (InitWalker \/ InitDiff) /\ InitEngine

(* ------------------------------ walker --------------------------------- *)
\* complete(): cancel() and onComplete()
\* processCommit(commit) entered with the queue already set to q; callerCancels
\* says whether the onUpdate callback calls cancel() on the fetcher
ProcessCommit(commit, q, callerCancels) ==
    IF ~MayProcess(running)
    THEN /\ pc' = "done"
         /\ queue' = q
         /\ UNCHANGED << running, count, fetched, commits, inflight, settled,
                         arrival, cancelled, nUpdate, lastUpdate, nComplete,
                         asked, late >>
    ELSE LET cs == Append(commits, commit)
             nowCancelled == cancelled \/ callerCancels
         IN /\ count' = count + 1
            /\ commits' = cs
            /\ nUpdate' = nUpdate + 1
            /\ lastUpdate' = UpdateArg(cs, countRequired)
            /\ cancelled' = nowCancelled
            /\ queue' = q
            /\ IF Enough(count + 1, countRequired)
               THEN \* complete()
                    /\ running' = FALSE
                    /\ nComplete' = nComplete + 1
                    /\ late' = [ late EXCEPT
                                   !.updates = IF cancelled THEN @ + 1 ELSE @,
                                   !.completes = IF nowCancelled THEN @ + 1 ELSE @ ]
                    /\ pc' = "done"
                    /\ UNCHANGED << fetched, inflight, settled, arrival, asked >>
               ELSE LET ps == ParentCids(commit, fetched)
                    IN /\ running' = (running /\ ~callerCancels)
                       /\ fetched' = fetched \cup Range(ps)
                       /\ inflight' = ps
                       /\ settled' = {}
                       /\ arrival' = << >>
                       /\ asked' = Ask(asked, ps)
                       /\ late' = [ late EXCEPT
                                      !.updates = IF cancelled THEN @ + 1 ELSE @,
                                      !.calls = IF nowCancelled THEN @ + Len(ps) ELSE @ ]
                       /\ pc' = "parents"
                       /\ UNCHANGED nComplete

\* Fetcher.start() on a RecursiveCommitFetcher: run() up to its getObject call
StartWalker ==
    /\ engine = "walker"
    /\ ~started
    /\ started' = TRUE
    /\ running' = TRUE
    /\ handle' = "pending"
    /\ fetched' = fetched \cup {cid}
    /\ inflight' = << cid >>
    /\ settled' = {}
    /\ asked' = Ask(asked, << cid >>)
    /\ pc' = "root"
    /\ arrival' = << >>
    /\ UNCHANGED << repoVars, returned, count, queue, commits, nComplete, diffVars,
                    cancelled, nUpdate, lastUpdate, late >>

\* the store fulfils one getObject promise of the walker
GetObjectResolves ==
    /\ engine = "walker"
    /\ pc \in {"root", "parents"}
    /\ \E i \in (1..Len(inflight)) \ settled :
          /\ settled' = settled \cup {i}
          /\ arrival' = Append(arrival, i)
    /\ late' = [ late EXCEPT !.seen = @ + 1,
                             !.settles = IF cancelled THEN @ + 1 ELSE @ ]
    /\ UNCHANGED << repoVars, returned, started, running, handle, count, fetched, queue,
                    commits, pc, inflight, diffVars, cancelled, nUpdate,
                    lastUpdate, nComplete, asked >>

\* the store rejects one getObject promise of the walker: the await throws,
\* the promise of run() rejects and the then() of start() never runs
GetObjectRejects ==
    /\ engine = "walker"
    /\ pc \in {"root", "parents"}
    /\ (1..Len(inflight)) \ settled # {}
    /\ pc' = "failed"
    /\ handle' = "rejected"
    /\ inflight' = << >>
    /\ settled' = {}
    /\ arrival' = << >>
    /\ late' = [ late EXCEPT !.seen = @ + 1, !.failed = TRUE ]
    /\ UNCHANGED << repoVars, returned, started, running, count, fetched, queue, commits,
                    diffVars, cancelled, nUpdate, lastUpdate, nComplete, asked >>

\* run(): .then(c => this.processCommit(c)) once the starting commit resolved
RootResolved ==
    /\ engine = "walker"
    /\ pc = "root"
    /\ settled = 1..Len(inflight)
    /\ \E callerCancels \in BOOLEAN :
          ProcessCommit(Resolved(inflight, arrival)[1], queue, callerCancels)
    /\ UNCHANGED << repoVars, returned, started, handle, diffVars >>

\* processCommit after `await Promise.all(...)`: lines 60-69
ParentsResolved ==
    /\ engine = "walker"
    /\ pc = "parents"
    /\ settled = 1..Len(inflight)
    /\ LET q == SortQueue(queue \o Resolved(inflight, arrival))
       IN IF q = << >>
          THEN \* complete()
               /\ queue' = q
               /\ running' = FALSE
               /\ nComplete' = nComplete + 1
               /\ late' = IF cancelled
                          THEN [ late EXCEPT !.completes = @ + 1 ]
                          ELSE late
               /\ pc' = "done"
               /\ UNCHANGED << count, fetched, commits, inflight, settled,
                               arrival, cancelled, nUpdate, lastUpdate, asked >>
          ELSE \E callerCancels \in BOOLEAN :
                  ProcessCommit(ShiftHead(q), ShiftRest(q), callerCancels)
    /\ UNCHANGED << repoVars, returned, started, handle, diffVars >>

\* start(): .then(() => this.running = false) once run() has fulfilled
WalkerFinished ==
    /\ engine = "walker"
    /\ pc = "done"
    /\ handle = "pending"
    /\ handle' = "resolved"
    /\ running' = FALSE
    /\ UNCHANGED << repoVars, returned, started, walkerVars, diffVars, cancelled,
                    nUpdate, lastUpdate, late >>

(* ------------------------------- diff ---------------------------------- *)
\* Fetcher.start() on a DiffFetcher: run() calls fetchTrees(baseTree, compTree)
StartDiff ==
    /\ engine = "diff"
    /\ ~started
    /\ started' = TRUE
    /\ running' = TRUE
    /\ handle' = "pending"
    /\ tasks' = { TreesTask(baseTree, compTree, << >>) }
    /\ UNCHANGED << repoVars, returned, walkerVars, stateChanges, cancelled, nUpdate,
                    lastUpdate, late >>

\* the store fulfils one getObject / fetchContents promise of the diff
StoreResolves ==
    /\ engine = "diff"
    /\ \E t \in tasks : \E i \in t.wait :
          tasks' = (tasks \ {t}) \cup { [ t EXCEPT !.wait = @ \ {i} ] }
    /\ late' = [ late EXCEPT !.seen = @ + 1,
                             !.settles = IF cancelled THEN @ + 1 ELSE @ ]
    /\ UNCHANGED << repoVars, returned, started, running, handle, walkerVars,
                    stateChanges, cancelled, nUpdate, lastUpdate >>

\* the store rejects one promise of the diff: the Promise.all awaiting it
\* rejects, and so does every enclosing fetchTrees up to run(); the then() of
\* start() never runs.  Nothing else of the engine is told.
StoreRejects ==
    /\ engine = "diff"
    /\ \E t \in tasks : t.wait # {} /\ tasks' = tasks \ {t}
    /\ handle' = "rejected"
    /\ late' = [ late EXCEPT !.seen = @ + 1, !.failed = TRUE ]
    /\ UNCHANGED << repoVars, returned, started, running, walkerVars, stateChanges,
                    cancelled, nUpdate, lastUpdate >>

\* fetchTrees after `await Promise.all([getObject(t1), t2 && getObject(t2)])`:
\* getChanges and the synchronous part of every change (lines 95-106)
TreesResolved ==
    /\ engine = "diff"
    /\ \E t \in tasks :
       /\ t.kind = "trees"
       /\ t.wait = {}
       /\ LET changes == GetChanges(filesOf[t.t1],
                                    IF t.t2 = "" THEN << >> ELSE filesOf[t.t2])
              new == IF MayFetch(running)
                     THEN { ChangeTask(changes[i], t.path) : i \in 1..Len(changes) }
                     ELSE {}
              calls == IF new = {} THEN 0
                       ELSE Len(changes) +
                            Cardinality({ n \in new : Cardinality(n.wait) = 2 })
          IN /\ tasks' = (tasks \ {t}) \cup new
             /\ late' = IF cancelled
                        THEN [ late EXCEPT !.calls = @ + calls ]
                        ELSE late
    /\ UNCHANGED << repoVars, returned, started, running, handle, walkerVars,
                    stateChanges, cancelled, nUpdate, lastUpdate >>

\* a change after `await Promise.all(c.change.map(fetchContents))`: lines
\* 111-123; callerCancels says whether the onUpdate callback calls cancel()
FilesResolved ==
    /\ engine = "diff"
    /\ \E t \in tasks :
       /\ t.kind = "files"
       /\ t.wait = {}
       /\ tasks' = tasks \ {t}
       /\ stateChanges' = SortChanges(Append(stateChanges, DiffRecord(t)))
    /\ IF MayEmit(running)
       THEN /\ nUpdate' = nUpdate + 1
            /\ lastUpdate' = stateChanges'
            /\ \E callerCancels \in BOOLEAN :
                  /\ running' = (running /\ ~callerCancels)
                  /\ cancelled' = (cancelled \/ callerCancels)
            /\ late' = [ late EXCEPT
                           !.updates = IF cancelled THEN @ + 1 ELSE @,
                           !.afterFail = IF late.failed THEN @ + 1 ELSE @ ]
       ELSE UNCHANGED << nUpdate, lastUpdate, running, cancelled, late >>
    /\ UNCHANGED << repoVars, returned, started, handle, walkerVars >>

\* the flag left as it is when the run ends
DiffFinishedLeavesRunning ==
    /\ engine = "diff"
    /\ started
    /\ tasks = {}
    /\ handle = "pending"
    /\ handle' = "resolved"
    /\ UNCHANGED << repoVars, returned, started, running, walkerVars, diffVars,
                    cancelled, nUpdate, lastUpdate, late >>

\* start(): .then(() => this.running = false) once run() has fulfilled
DiffFinished ==
    /\ engine = "diff"
    /\ started
    /\ tasks = {}
    /\ handle = "pending"
    /\ handle' = "resolved"
    /\ running' = FALSE
    /\ UNCHANGED << repoVars, returned, started, walkerVars, diffVars, cancelled,
                    nUpdate, lastUpdate, late >>

\* Fetcher.cancel(), called by the holder of the fetcher
Cancel ==
    /\ started
    /\ running' = FALSE
    /\ cancelled' = TRUE
    /\ late' = [ late EXCEPT !.early = @ \/ (~cancelled /\ late.seen = 0) ]
    /\ UNCHANGED << repoVars, returned, started, handle, walkerVars, diffVars, nUpdate,
                    lastUpdate >>

(* ------------------------- getChanges on its own ----------------------- *)
\* the names an entry handed to getChanges can carry: "B", "a", "ab"
ChangeNames == Names \cup { <<97, 98>> }

\* the files of a tree handed to getChanges: at most two entries in any
\* order, no name twice
EntryLists ==
    { << >> }
    \cup { << Entry(n, c) >> : n \in ChangeNames, c \in FileCids \cup DirCids }
    \cup { s \in { << Entry(n, c), Entry(m, d) >> :
                       n \in ChangeNames, m \in ChangeNames,
                       c \in FileCids \cup DirCids,
                       d \in FileCids \cup DirCids } :
             s[1].name # s[2].name }

\* a fetcher on which nothing but getChanges is called
InitChanges ==
    /\ engine = "getChanges"
    /\ \E b \in EntryLists, c \in EntryLists :
          filesOf = [ a \in TreeAddrs |->
                        IF a = BaseAddr THEN b
                        ELSE IF a = CompAddr THEN c
                        ELSE SubTree(a) ]
    /\ baseTree = BaseAddr
    /\ compTree \in { CompAddr, "" }
    /\ compTree = "" => filesOf[CompAddr] = << >>
    /\ parentsOf = [ c \in Commits |-> << >> ]
    /\ momentOf = [ c \in Commits |-> 1 ]
    /\ countRequired = -1
    /\ InitEngine

\* getChanges(base, comp), comp undefined when there is no comparison tree
CallGetChanges ==
    /\ engine = "getChanges"
    /\ pc = "new"
    /\ pc' = "returned"
    /\ returned' = GetChanges(filesOf[BaseAddr],
                              IF compTree = "" THEN << >> ELSE filesOf[CompAddr])
    /\ UNCHANGED << repoVars, started, running, handle, count, fetched, queue,
                    commits, inflight, settled, arrival, nComplete, asked,
                    diffVars, cancelled, nUpdate, lastUpdate, late >>

NextChanges == CallGetChanges

SpecChanges == InitChanges /\ [][NextChanges]_vars

Next ==
    \/ StartWalker
    \/ GetObjectResolves
    \/ GetObjectRejects
    \/ RootResolved
    \/ ParentsResolved
    \/ WalkerFinished
    \/ StartDiff
    \/ StoreResolves
    \/ StoreRejects
    \/ TreesResolved
    \/ FilesResolved
    \/ DiffFinished
    \/ Cancel

Spec == Init /\ [][Next]_vars

(* --------------------- every store call settles well ------------------- *)
\* the steps of a run none of whose store calls is rejected
NextSettling ==
    \/ StartWalker
    \/ GetObjectResolves
    \/ RootResolved
    \/ ParentsResolved
    \/ WalkerFinished
    \/ StartDiff
    \/ StoreResolves
    \/ TreesResolved
    \/ FilesResolved
    \/ DiffFinished
    \/ Cancel

\* the steps that are not the caller's: a store promise fulfils, or a
\* continuation whose promises have fulfilled is run by the event loop
Settle ==
    \/ GetObjectResolves
    \/ RootResolved
    \/ ParentsResolved
    \/ WalkerFinished
    \/ StoreResolves
    \/ TreesResolved
    \/ FilesResolved
    \/ DiffFinished

\* every store call settles successfully in the end and the event loop runs
\* every continuation that is ready
SpecSettling == Init /\ [][NextSettling]_vars /\ WF_vars(Settle)

(* ------------------------------ properties ----------------------------- *)
\* s is in descending order of committer timestamp
SortedByTime(s) ==
    \A i \in 1..(Len(s) - 1) : momentOf[s[i]] >= momentOf[s[i + 1]]

\* no element of s occurs twice
NoRepeats(s) == \A i, j \in 1..Len(s) : s[i] = s[j] => i = j

\* no commit is newer than a commit that names it as a parent
ParentsNotNewer ==
    \A c \in Reachable : \A p \in ParentSet(c) : momentOf[p] <= momentOf[c]

\* C1: a walker with a finite target k >= 1 on a graph with at least k
\* reachable commits, never cancelled and with every resolution successful,
\* has delivered exactly k commits in its last onUpdate once it is done, and
\* has invoked onComplete exactly once (never more than once on the way).
WalkerFiniteTarget ==
    ( /\ engine = "walker"
      /\ countRequired >= 1
      /\ Cardinality(Reachable) >= countRequired
      /\ ~cancelled )
    => /\ nComplete <= 1
       /\ pc = "done" => (Len(lastUpdate) = countRequired /\ nComplete = 1)

\* C1 witness: a run that stopped at 2 commits with more of them reachable
WalkerFiniteTargetReached ==
    /\ engine = "walker"
    /\ countRequired = 2
    /\ Cardinality(Reachable) >= 3
    /\ ~cancelled
    /\ handle = "resolved"
    /\ Len(lastUpdate) = 2
    /\ nComplete = 1

\* C2 as claimed: whatever the timestamps, every sequence passed to onUpdate
\* is in descending order of committer timestamp.
WalkerUpdatesSorted ==
    engine = "walker" => SortedByTime(lastUpdate)

\* C2 amended: when no commit is newer than a commit naming it as a parent,
\* every sequence passed to onUpdate is in descending order of committer
\* timestamp.
WalkerUpdatesSortedWhenParentsOlder ==
    (engine = "walker" /\ ParentsNotNewer) => SortedByTime(lastUpdate)

\* C2 witness: a merge whose second parent is the newer one was walked in
\* timestamp order rather than parent order
WalkerMergeWalkedNewestFirst ==
    /\ engine = "walker"
    /\ ParentsNotNewer
    /\ parentsOf[cid] = << 2, 3 >>
    /\ momentOf[3] > momentOf[2]
    /\ Len(lastUpdate) >= 3
    /\ lastUpdate[2] = 3
    /\ lastUpdate[3] = 2

\* C3: an unbounded walker (countRequired = -1), never cancelled and with
\* every resolution successful, ends with every reachable commit in its last
\* onUpdate and with onComplete invoked exactly once; onComplete is invoked
\* only with the queue empty, and no onUpdate follows it.
WalkerUnbounded ==
    /\ []( ( engine = "walker" /\ countRequired = -1 /\ ~cancelled )
           => /\ nComplete <= 1
              /\ nComplete = 1 => (queue = << >> /\ pc = "done")
              /\ pc = "done" => /\ nComplete = 1
                                /\ Reachable \subseteq Range(lastUpdate)
                                /\ lastUpdate = commits )
    /\ [][ ( engine = "walker" /\ countRequired = -1 /\ nComplete >= 1 )
           => nUpdate' = nUpdate ]_vars

\* C3 witness: a whole history in which the last commit is reachable along
\* two paths has been delivered
WalkerUnboundedWalkedAll ==
    /\ engine = "walker"
    /\ countRequired = -1
    /\ ~cancelled
    /\ handle = "resolved"
    /\ Reachable = Commits
    /\ \E c, d \in Commits :
          c # d /\ NumCommits \in ParentSet(c) /\ NumCommits \in ParentSet(d)
    /\ Len(lastUpdate) = NumCommits
    /\ nComplete = 1

\* C4 as claimed: no address occurs twice in the queue and the result
\* sequence taken together, and the store is asked for an address at most
\* once.
WalkerNoDuplicates ==
    engine = "walker"
    => /\ NoRepeats(commits \o queue)
       /\ \A c \in Commits : asked[c] <= 1

\* C5 as claimed: after the caller's cancel() the walker invokes neither
\* onUpdate nor onComplete.
WalkerSilentAfterCancel ==
    engine = "walker" => (late.updates = 0 /\ late.completes = 0)

\* C6: when cancel() is called after start() and before any store promise of
\* the run has settled, the run invokes neither onUpdate nor onComplete.
EarlyCancelSilent ==
    late.early => (nUpdate = 0 /\ nComplete = 0)

\* C6 witness: the run was cancelled at once, its store calls were fulfilled
\* afterwards and the run has ended
EarlyCancelRunEnded ==
    /\ late.early
    /\ late.settles >= 1
    /\ handle = "resolved"

\* C7 as claimed: after the caller's cancel() the engine issues no store
\* call.
NoStoreCallAfterCancel ==
    late.calls = 0

\* C8: after the caller's cancel() the diff engine never invokes onUpdate.
DiffSilentAfterCancel ==
    engine = "diff" => late.updates = 0

\* C8 witness: a fetchContents in flight at cancel() was fulfilled afterwards
\* and its record was stored without an onUpdate
DiffCancelledWithFetchInFlight ==
    /\ engine = "diff"
    /\ cancelled
    /\ late.settles >= 1
    /\ tasks = {}
    /\ Len(stateChanges) > nUpdate

\* C9 as claimed: once cancel() has been called, the walker's queue, result
\* sequence and count and the diff engine's result list never change.
CancelledStateFrozen ==
    [][ cancelled => /\ queue' = queue
                     /\ commits' = commits
                     /\ count' = count
                     /\ stateChanges' = stateChanges ]_vars

\* C10 as claimed: once a store call of a diff run has been rejected,
\* onUpdate is never invoked again.
DiffSilentAfterRejection ==
    engine = "diff" => late.afterFail = 0

\* the entries of a tree as pairs of name and content address
NameCids(a) == { << a[i].name, a[i].cid >> : i \in 1..Len(a) }

\* the diff compares two trees with the same names at the same addresses
IdenticalTrees ==
    /\ engine = "diff"
    /\ compTree = CompAddr
    /\ NameCids(filesOf[BaseAddr]) = NameCids(filesOf[CompAddr])

\* C11: when the base tree and the comparison tree hold the same entry names
\* with equal content addresses, the result list stays empty and onUpdate is
\* never invoked (so never with a non-empty list).
IdenticalTreesNoChange ==
    IdenticalTrees => /\ stateChanges = << >>
                      /\ lastUpdate = << >>
                      /\ nUpdate = 0

\* C11 witness: two identical trees holding a file and a directory were
\* compared and the run has ended
IdenticalTreesCompared ==
    /\ IdenticalTrees
    /\ Len(filesOf[BaseAddr]) = 2
    /\ \E i \in 1..2 : filesOf[BaseAddr][i].dir
    /\ \E i \in 1..2 : ~filesOf[BaseAddr][i].dir
    /\ ~cancelled
    /\ handle = "resolved"

\* the diff was started without a comparison address
AbsentComparison == engine = "diff" /\ compTree = ""

\* C12: without a comparison address only the base tree is resolved, and a
\* run that was neither cancelled nor failed ends with one record for every
\* entry of the base tree, each with an undefined comparison side.
AbsentComparisonAllAdded ==
    AbsentComparison
    => /\ \A t \in tasks :
            /\ t.kind = "trees"
               => (t.t1 = baseTree /\ t.t2 = "" /\ t.path = << >>
                   /\ t.wait \subseteq {1})
            /\ t.kind = "files" => (t.c2 = Undef /\ t.wait \subseteq {1})
       /\ (handle = "resolved" /\ ~cancelled)
          => /\ Len(stateChanges) = Len(filesOf[baseTree])
             /\ \A i \in 1..Len(filesOf[baseTree]) :
                   \E j \in 1..Len(stateChanges) :
                      stateChanges[j] =
                         [ path |-> << >>,
                           name |-> filesOf[baseTree][i].name,
                           change |-> << filesOf[baseTree][i].cid, "" >> ]

\* C12 witness: a base tree holding a file and a directory was listed
\* without a comparison tree, and the run has ended
AbsentComparisonListed ==
    /\ AbsentComparison
    /\ Len(filesOf[baseTree]) = 2
    /\ \E i \in 1..2 : filesOf[baseTree][i].dir
    /\ \E i \in 1..2 : ~filesOf[baseTree][i].dir
    /\ ~cancelled
    /\ handle = "resolved"
    /\ Len(stateChanges) = 2

\* the entry of tree a named n, undefined when a has none
EntryNamed(a, n) ==
    IF \E i \in 1..Len(a) : a[i].name = n
    THEN a[CHOOSE i \in 1..Len(a) : a[i].name = n]
    ELSE Undef

\* C13: for two trees with unique names getChanges returns an entry for a
\* name exactly when the name is absent on one side or present on both with
\* differing content addresses; the entry carries the pair (base entry or
\* undefined, comparison entry or undefined); a qualifying name is returned
\* exactly once.
GetChangesExact ==
    (engine = "getChanges" /\ pc = "returned")
    => LET base == filesOf[BaseAddr]
           comp == IF compTree = "" THEN << >> ELSE filesOf[CompAddr]
       IN \A n \in ChangeNames :
             LET b == EntryNamed(base, n)
                 c == EntryNamed(comp, n)
                 qualifies == /\ (b # Undef \/ c # Undef)
                              /\ (b = Undef \/ c = Undef \/ b.cid # c.cid)
                 at == { i \in 1..Len(returned) : returned[i].name = n }
             IN /\ Cardinality(at) = IF qualifies THEN 1 ELSE 0
                /\ \A i \in at : returned[i].change = << b, c >>

\* C13 witness: getChanges has returned a deletion, an addition and a
\* modification at once
GetChangesAllKinds ==
    /\ engine = "getChanges"
    /\ pc = "returned"
    /\ Len(returned) = 3
    /\ \E i \in 1..3 : returned[i].change[2] = Undef
    /\ \E i \in 1..3 : returned[i].change[1] = Undef
    /\ \E i \in 1..3 : returned[i].change[1] # Undef /\ returned[i].change[2] # Undef

\* no record of s has a name that is less than the name of a record before it
SortedByName(s) ==
    \A i \in 1..Len(s) : \A j \in (i + 1)..Len(s) :
       ~StrLess(s[j].name, s[i].name)

\* C14: the result list of the diff, and every list handed to onUpdate, is
\* sorted by record name in case-sensitive lexicographic order, whatever
\* the order in which the content fetches complete.
DiffChangesSorted ==
    engine = "diff" => (SortedByName(stateChanges) /\ SortedByName(lastUpdate))

\* C14 witness: the record named "B" was stored after the record named "a"
\* had been delivered, and stands before it
DiffLateRecordSortedIn ==
    /\ engine = "diff"
    /\ Len(lastUpdate) = 1
    /\ lastUpdate[1].name = <<97>>
    /\ Len(stateChanges) = 2
    /\ stateChanges[1].name = <<66>>
    /\ stateChanges[2] = lastUpdate[1]

\* the records of fetchTrees(t1, t2, path) in the order its changes are
\* taken up: the order in which they are stored when every store call
\* completes before the next one is looked at
RECURSIVE RecordsInCallOrder(_, _, _)
RecordsInCallOrder(t1, t2, path) ==
    LET chs == GetChanges(filesOf[t1], IF t2 = "" THEN << >> ELSE filesOf[t2])
        RECURSIVE From(_)
        From(i) ==
            IF i > Len(chs) THEN << >>
            ELSE (IF BothDirs(chs[i])
                  THEN RecordsInCallOrder(chs[i].change[1].cid,
                                          chs[i].change[2].cid,
                                          DirPath(path, chs[i].name))
                  ELSE << DiffRecord(FilesTask(chs[i], path)) >>)
                 \o From(i + 1)
    IN From(1)

\* a diff run has ended without a cancel() and without a rejection
DiffEndedClean ==
    /\ engine = "diff"
    /\ handle = "resolved"
    /\ ~cancelled

\* C15 as claimed: for fixed trees every run that is neither cancelled nor
\* failed ends with the same records at the same positions; the list such a
\* run ends with is the one of the run whose store calls complete in call
\* order.
DiffFinalOrderFixed ==
    DiffEndedClean
    => stateChanges = SortChanges(RecordsInCallOrder(baseTree, compTree, << >>))

\* the commits processCommit(commit) and its successors append to cs0 when
\* the parents of each commit are merged in the order they were asked for
RECURSIVE WalkInCallOrder(_, _, _, _)
WalkInCallOrder(cs0, q, f, commit) ==
    LET cs == Append(cs0, commit)
    IN IF Enough(Len(cs), countRequired) THEN cs
       ELSE LET ps == ParentCids(commit, f)
                merged == SortQueue(q \o ps)
            IN IF merged = << >> THEN cs
               ELSE WalkInCallOrder(cs, ShiftRest(merged), f \cup Range(ps),
                                    ShiftHead(merged))

\* C16: for a fixed graph, starting address and countRequired the n-th
\* onUpdate argument of a run that is never cancelled is the same whatever
\* the order in which the parent resolutions of a commit complete: it is the
\* first n commits of the walk that merges parents in call order.
WalkerUpdatesFixed ==
    (engine = "walker" /\ ~cancelled)
    => lastUpdate = Slice(WalkInCallOrder(<< >>, << >>, {cid}, cid), nUpdate)

\* C16 witness: the two parents of the starting commit carry the same
\* timestamp, the second was resolved before the first, and the first was
\* delivered
WalkerLateParentDeliveredFirst ==
    /\ engine = "walker"
    /\ ~cancelled
    /\ handle = "resolved"
    /\ Len(parentsOf[cid]) = 2
    /\ parentsOf[cid][1] # parentsOf[cid][2]
    /\ momentOf[parentsOf[cid][1]] = momentOf[parentsOf[cid][2]]
    /\ arrival = << 2, 1 >>
    /\ lastUpdate = << cid, parentsOf[cid][1] >>

\* C17: provided every store call settles successfully in the end, the
\* promise returned by start() is resolved in the end, for both engines,
\* whether the run completes by itself or is cancelled at any point; when it
\* is resolved running is false and stays false; a cancel() after a cancel()
\* changes nothing.
TaskLifecycle ==
    /\ started ~> (handle = "resolved")
    /\ [](handle = "resolved" => ~running)
    /\ [][ handle = "resolved" => handle' = "resolved" ]_vars
    /\ [][ (cancelled /\ Cancel) => UNCHANGED vars ]_vars

\* C17 witness: a run that had delivered results was cancelled with store
\* calls in flight, these were fulfilled afterwards and the promise of
\* start() is resolved
CancelledRunResolved ==
    /\ cancelled
    /\ ~late.early
    /\ nUpdate >= 1
    /\ late.settles >= 1
    /\ handle = "resolved"
    /\ ~running

\* C18: the walker's queue is in descending order of committer timestamp in
\* every state, and every commit processed after the starting commit has,
\* when it is taken off the queue, a timestamp that no commit resolved and
\* not yet processed exceeds.
QueueBestFirst ==
    /\ [](engine = "walker" => SortedByTime(queue))
    /\ [][ (pc = "parents" /\ Len(commits') = Len(commits) + 1)
           => \A x \in Range(queue) \cup Range(inflight) :
                 momentOf[commits'[Len(commits')]] >= momentOf[x] ]_vars

\* C18 witness: of the two parents of the starting commit the second is the
\* newer; it was processed first and the other one waits in the queue
NewerParentTakenFirst ==
    /\ engine = "walker"
    /\ Len(parentsOf[cid]) = 2
    /\ momentOf[parentsOf[cid][2]] > momentOf[parentsOf[cid][1]]
    /\ commits = << cid, parentsOf[cid][2] >>
    /\ queue = << parentsOf[cid][1] >>

\* the entries named n of the trees at t1 and t2 (undefined without a tree)
BaseSide(t1, n) == EntryNamed(filesOf[t1], n)
CompSide(t2, n) == IF t2 = "" THEN Undef ELSE EntryNamed(filesOf[t2], n)

\* an entry pair is a change: a side is missing or the addresses differ
IsChange(b, c) ==
    /\ (b # Undef \/ c # Undef)
    /\ (b = Undef \/ c = Undef \/ b.cid # c.cid)

\* a change is descended into: both sides present and both directories
IsDescent(b, c) ==
    /\ IsChange(b, c)
    /\ b # Undef /\ c # Undef
    /\ b.dir /\ c.dir

\* the names under which the trees at t1 and t2 are descended into
DescentNames(t1, t2) ==
    { n \in ChangeNames : IsDescent(BaseSide(t1, n), CompSide(t2, n)) }

\* the sub-tree pairs, with their paths, below the pair (t1, t2) at path
RECURSIVE ExpectedDescents(_, _, _)
ExpectedDescents(t1, t2, path) ==
    { << BaseSide(t1, n).cid, CompSide(t2, n).cid, Append(path, n) >> :
        n \in DescentNames(t1, t2) }
    \cup UNION { ExpectedDescents(BaseSide(t1, n).cid, CompSide(t2, n).cid,
                                  Append(path, n)) :
                   n \in DescentNames(t1, t2) }

\* the records of the changed entries that are not descended into, at any
\* depth below the pair (t1, t2) at path
RECURSIVE ExpectedRecords(_, _, _)
ExpectedRecords(t1, t2, path) ==
    { [ path |-> path, name |-> n,
        change |-> << Contents(BaseSide(t1, n)), Contents(CompSide(t2, n)) >> ] :
        n \in { m \in ChangeNames :
                  /\ IsChange(BaseSide(t1, m), CompSide(t2, m))
                  /\ ~IsDescent(BaseSide(t1, m), CompSide(t2, m)) } }
    \cup UNION { ExpectedRecords(BaseSide(t1, n).cid, CompSide(t2, n).cid,
                                 Append(path, n)) :
                   n \in DescentNames(t1, t2) }

\* C19: a sub-tree pair is resolved only for a change with both sides
\* present and both directories, under the path extended by its name; every
\* other change yields one record under the path of its directory (so store
\* calls and records exist for changes only, and no record twice); a run
\* that is neither cancelled nor failed ends with exactly one record for
\* every changed entry that is not descended into, at any depth.
DiffDescent ==
    engine = "diff"
    => /\ \A t \in tasks :
            /\ t.kind = "trees"
               => \/ << t.t1, t.t2, t.path >> = << baseTree, compTree, << >> >>
                  \/ << t.t1, t.t2, t.path >>
                        \in ExpectedDescents(baseTree, compTree, << >>)
            /\ t.kind = "files"
               => DiffRecord(t) \in ExpectedRecords(baseTree, compTree, << >>)
       /\ Range(stateChanges) \subseteq ExpectedRecords(baseTree, compTree, << >>)
       /\ NoRepeats(stateChanges)
       /\ DiffEndedClean
          => Range(stateChanges) = ExpectedRecords(baseTree, compTree, << >>)

\* C19 witness: a run ended with a record of the top level and records one
\* and two directories down
DiffDescendedTwoLevels ==
    /\ DiffEndedClean
    /\ \E i \in 1..Len(stateChanges) : Len(stateChanges[i].path) = 0
    /\ \E i \in 1..Len(stateChanges) : Len(stateChanges[i].path) = 1
    /\ \E i \in 1..Len(stateChanges) : Len(stateChanges[i].path) = 2

\* s without its i-th element
RemoveAt(s, i) == SubSeq(s, 1, i - 1) \o SubSeq(s, i + 1, Len(s))

\* C20: every onUpdate delivers what the invocation before it delivered and
\* exactly one element more: for the walker the previous sequence followed
\* by the commit just processed, never more than countRequired commits; for
\* the diff the previous records and one record just resolved.  So the
\* number of invocations is the length of the sequence delivered last.
IncrementalUpdates ==
    /\ [](nUpdate = Len(lastUpdate))
    /\ [][ nUpdate' # nUpdate
           => /\ nUpdate' = nUpdate + 1
              /\ engine = "walker"
                 => /\ lastUpdate' = Append(lastUpdate, commits'[Len(commits')])
                    /\ Len(commits') = Len(commits) + 1
                    /\ countRequired # -1 => Len(lastUpdate') <= countRequired
              /\ engine = "diff"
                 => \E i \in 1..Len(lastUpdate') :
                       /\ RemoveAt(lastUpdate', i) = lastUpdate
                       /\ RemoveAt(stateChanges', i) = stateChanges ]_vars

\* C20 witness: the diff has delivered three lists, the last of them with a
\* record at the top level and records of two directories
ThreeUpdatesDelivered ==
    /\ engine = "diff"
    /\ nUpdate = 3
    /\ Len(lastUpdate) = 3
    /\ \E i \in 1..3 : lastUpdate[i].path = << >>
    /\ \E i \in 1..3 : lastUpdate[i].path # << >>

====
